---------------------------- MODULE Spec2Model ----------------------------
(***************************************************************************)
(* Model of matrix-multiplication-rs (src/src/main.rs): the Matrix type    *)
(* with new/get/set, the sequential multiplier mul, the multi-threaded     *)
(* multiplier mul_mt (orchestrator, worker threads, mpsc channel) and      *)
(* generate_matrix.                                                        *)
(*                                                                         *)
(* A Matrix is the record [width, height, cells]; cells is the Vec<i32>,   *)
(* so the element at flat index n is cells[n + 1].  An Option or a call    *)
(* outcome is a record with a kind field: "Some", "None", or "Panic" when  *)
(* the call unwinds instead of returning.                                  *)
(***************************************************************************)
EXTENDS Integers, Sequences, FiniteSets, TLC

VARIABLES
    build,          \* "debug": overflow checks on; "release": i32 arithmetic wraps
    pc,             \* position of the caller / of the orchestrating thread
    a, b,           \* the two operands, as returned by Matrix::new / generate_matrix
    lastNew,        \* the last direct Matrix::new call: its arguments and what it returned
    result_1,       \* outcome of a.mul(b)
    result_2,       \* outcome of a.mul_mt(b)
    m,              \* mul_mt: the output matrix owned by the orchestrator
    thread_count,   \* mul_mt: number of workers
    th_cols,        \* mul_mt: columns per worker
    th_cols_left,   \* mul_mt: remainder columns, given to the last worker
    m_height,       \* mul_mt: output height captured by the workers
    th_index,       \* mul_mt: spawn loop counter
    tx,             \* mul_mt: TRUE while the orchestrator holds its Sender
    workers,        \* mul_mt: spawned thread th_index -> [state, i, j]
    rx,             \* mul_mt: the channel; per sender, its triples not yet received
    sent,           \* mul_mt: <<th_index, i, j, cell>> -> number of times that worker sent that triple
    written,        \* mul_mt: flat index -> number of times the drain loop stored into that output cell
    mat,            \* Matrix API exercise: the matrix under test
    hist,           \* Matrix API exercise: the get/set calls made so far
    acc,            \* one cell's accumulation: iterations done, the accumulator, the exact sum
    verify          \* the driver's comparison loop: its position (i, j) and how it ended

vars == <<build, pc, a, b, lastNew, result_1, result_2, m, thread_count, th_cols,
          th_cols_left, m_height, th_index, tx, workers, rx, sent, written, mat, hist,
          acc, verify>>

mtVars == <<m, thread_count, th_cols, th_cols_left, m_height, th_index, tx, workers, rx,
            sent, written>>

-----------------------------------------------------------------------------
(* Bounds of the model *)

\* operand widths and heights range over 0..MaxDim
MaxDim == 2

\* output widths of the partition exercise range over 0..MaxWidth
MaxWidth == 26

\* number of get/set calls in one Matrix API exercise
MaxOps == 2

-----------------------------------------------------------------------------
(* i32 arithmetic.  The values are kept inside the signed 32-bit range at  *)
(* every step, so that nothing is computed outside it.                     *)

MaxI32 == 2147483647

MinI32 == (-MaxI32) - 1

Abs(x) == IF x < 0 THEN -x ELSE x

\* x + y leaves the range of a 16-bit accumulator
AddOverflowsI16(x, y) == x + y > 32767 \/ x + y < -32768

\* x + y leaves the i32 range
AddOverflows(x, y) ==
    \/ y > 0 /\ x > MaxI32 - y
    \/ y < 0 /\ x < MinI32 - y

\* x + y reduced to i32 (two's complement wrap)
AddWrap(x, y) ==
    IF y > 0 /\ x > MaxI32 - y THEN (x + MinI32) + (y + MinI32)
    ELSE IF y < 0 /\ x < MinI32 - y THEN (x - MinI32) + (y - MinI32)
    ELSE x + y

\* x * y leaves the i32 range (x, y # MinI32)
MulOverflows(x, y) ==
    IF x = 0 \/ y = 0 \/ Abs(x) = 1 \/ Abs(y) = 1 THEN FALSE
    ELSE IF (x > 0) = (y > 0) THEN Abs(x) > MaxI32 \div Abs(y)
    ELSE LET q == MaxI32 \div Abs(y)
             r == MaxI32 % Abs(y)
         IN  Abs(x) > (IF r = Abs(y) - 1 THEN q + 1 ELSE q)

NegWrap(x) == IF x = MinI32 THEN MinI32 ELSE -x

RECURSIVE MulWrapLoop(_, _)
\* x * y reduced to i32 for y >= 0, by doubling
MulWrapLoop(x, y) ==
    IF y = 0 THEN 0
    ELSE LET half == MulWrapLoop(AddWrap(x, x), y \div 2)
         IN  IF y % 2 = 1 THEN AddWrap(half, x) ELSE half

\* x * y reduced to i32 (two's complement wrap; x, y # MinI32)
MulWrap(x, y) ==
    IF ~MulOverflows(x, y) THEN x * y
    ELSE IF y < 0 THEN NegWrap(MulWrapLoop(x, -y))
    ELSE MulWrapLoop(x, y)

-----------------------------------------------------------------------------
(* Matrix *)

None == [kind |-> "None"]

Panic == [kind |-> "Panic"]

SomeMatrix(mx) == [kind |-> "Some", m |-> mx]

SomeValue(v) == [kind |-> "Some", v |-> v]

\* vec![0; n]
Zeros(n) == [idx \in 1..n |-> 0]

\* Matrix::new with the length check removed
NewUnchecked(width, height, cells) ==
    SomeMatrix([width |-> width, height |-> height, cells |-> cells])

\* Matrix::new
New(width, height, cells) ==
    LET size == width * height
    IN  IF Len(cells) # size
        THEN None
        ELSE SomeMatrix([width |-> width, height |-> height, cells |-> cells])

\* Matrix::get reading one element further: the flat index y*width + x + 1
GetOneBased(mx, x, y) ==
    LET size == mx.width * mx.height
    IN  IF x * y > size
        THEN None
        ELSE IF y * mx.width + x + 1 >= Len(mx.cells)
        THEN Panic
        ELSE SomeValue(mx.cells[y * mx.width + x + 2])

\* Matrix::get.  cells[..] past the buffer is the index panic of Vec.
Get(mx, x, y) ==
    LET size == mx.width * mx.height
    IN  IF x * y > size
        THEN None
        ELSE IF y * mx.width + x >= Len(mx.cells)
        THEN Panic
        ELSE SomeValue(mx.cells[y * mx.width + x + 1])

\* Matrix::set writing the transposed flat index
SetTransposed(mx, x, y, value) ==
    LET size == mx.width * mx.height
        index == x * mx.height + y
    IN  IF x * y > size
        THEN [kind |-> "None", m |-> mx]
        ELSE IF index >= Len(mx.cells)
        THEN [kind |-> "Panic", m |-> mx]
        ELSE [kind |-> "Some", v |-> mx.cells[index + 1],
              m |-> [mx EXCEPT !.cells[index + 1] = value]]

\* Matrix::set returning the value it stored instead of the one it replaced
SetReturnsNew(mx, x, y, value) ==
    LET size == mx.width * mx.height
        index == y * mx.width + x
    IN  IF x * y > size
        THEN [kind |-> "None", m |-> mx]
        ELSE IF index >= Len(mx.cells)
        THEN [kind |-> "Panic", m |-> mx]
        ELSE [kind |-> "Some", v |-> value,
              m |-> [mx EXCEPT !.cells[index + 1] = value]]

\* Matrix::set.  The outcome carries the returned Option (kind, v) and the
\* matrix as the call leaves it (m).
Set(mx, x, y, value) ==
    LET size == mx.width * mx.height
        index == y * mx.width + x
    IN  IF x * y > size
        THEN [kind |-> "None", m |-> mx]
        ELSE IF index >= Len(mx.cells)
        THEN [kind |-> "Panic", m |-> mx]
        ELSE [kind |-> "Some", v |-> mx.cells[index + 1],
              m |-> [mx EXCEPT !.cells[index + 1] = value]]

-----------------------------------------------------------------------------
(* The multipliers' shared pieces *)

\* the operand-shape test of mul and mul_mt, testing the wrong pair of sides
CompatibleSwapped(m1, m2) == m1.height = m2.width

\* mul / mul_mt: "if m1.width != m2.height { return None }"
Compatible(m1, m2) == m1.width = m2.height

RECURSIVE Accumulate(_, _, _, _, _, _, _)
\* "for k in 0..m1.width { cell += m1.get(k, i).unwrap() * m2.get(j, k).unwrap() }"
\* from iteration k on, with the accumulator at cell.  unwrap of None panics;
\* an overflowing * or += panics in a debug build and wraps in a release build.
Accumulate(m1, m2, i, j, k, cell, bld) ==
    IF k >= m1.width THEN SomeValue(cell)
    ELSE LET g1 == Get(m1, k, i)
             g2 == Get(m2, j, k)
         IN  IF g1.kind # "Some" \/ g2.kind # "Some" THEN Panic
             ELSE IF bld = "debug" /\ MulOverflows(g1.v, g2.v) THEN Panic
             ELSE LET prod == MulWrap(g1.v, g2.v)
                  IN  IF bld = "debug" /\ AddOverflows(cell, prod) THEN Panic
                      ELSE Accumulate(m1, m2, i, j, k + 1, AddWrap(cell, prod), bld)

-----------------------------------------------------------------------------
(* Matrix::mul *)

\* the cell computation of mul with the output coordinates exchanged
MulCellSwapped(m1, m2, i, j, bld) == Accumulate(m1, m2, j, i, 0, 0, bld)

\* mul: "let mut cell = 0; for k in 0..m1.width { ... }" for output cell (i, j)
MulCell(m1, m2, i, j, bld) == Accumulate(m1, m2, i, j, 0, 0, bld)

RECURSIVE MulLoop(_, _, _, _, _, _)
\* mul: the loops "for i in 0..m.width { for j in 0..m.height { ... m.set(i, j, cell) } }"
\* from iteration (i, j) on.  The Option returned by set is discarded.
MulLoop(m1, m2, mx, i, j, bld) ==
    IF i >= mx.width THEN SomeMatrix(mx)
    ELSE IF j >= mx.height THEN MulLoop(m1, m2, mx, i + 1, 0, bld)
    ELSE LET c == MulCell(m1, m2, i, j, bld)
         IN  IF c.kind # "Some" THEN Panic
             ELSE LET s == Set(mx, i, j, c.v)
                  IN  IF s.kind = "Panic" THEN Panic
                      ELSE MulLoop(m1, m2, s.m, i, j + 1, bld)

\* Matrix::mul
Mul(m1, m2, bld) ==
    IF ~Compatible(m1, m2) THEN None
    ELSE LET n == New(m1.height, m2.width, Zeros(m1.height * m2.width))
         IN  IF n.kind # "Some" THEN None
             ELSE MulLoop(m1, m2, n.m, 0, 0, bld)

-----------------------------------------------------------------------------
(* generate_matrix and the operands of the model *)

\* rng.gen_range(RngLow..RngHigh): the half-open range of generated elements
RngLow == -99

RngHigh == 99

\* the rng streams the model draws from
RngSeeds == {0}

\* the n-th draw (n = 0, 1, ...) of rng stream seed, a value of RngLow..RngHigh-1
Rand(seed, n) == RngLow + ((seed + 37 * n) % (RngHigh - RngLow))

RECURSIVE GenLoop(_, _, _, _, _)
\* generate_matrix: "for i in 0..width { for j in 0..height { m.set(i, j, rand_value) } }"
\* from iteration (i, j) on, the next draw being the n-th
GenLoop(mx, i, j, seed, n) ==
    IF i >= mx.width THEN SomeMatrix(mx)
    ELSE IF j >= mx.height THEN GenLoop(mx, i + 1, 0, seed, n)
    ELSE LET s == Set(mx, i, j, Rand(seed, n))
         IN  IF s.kind = "Panic" THEN Panic
             ELSE GenLoop(s.m, i, j + 1, seed, n + 1)

\* generate_matrix; unwrap of a None from Matrix::new panics
generate_matrix(width, height, seed) ==
    LET n == New(width, height, Zeros(width * height))
    IN  IF n.kind # "Some" THEN Panic ELSE GenLoop(n.m, 0, 0, seed, 0)

\* the least element whose square leaves the i32 range
Big == 46341

\* the literal buffers handed to Matrix::new
Fills == {"ramp", "big"}

\* a buffer of n elements: 1, 2, ..., n, with Big as last element in the "big" fill
Fill(fill, n) == [idx \in 1..n |-> IF fill = "big" /\ idx = n THEN Big ELSE idx]

Dims == 0..MaxDim

\* buffer lengths tried for a width x height matrix: the right one and its neighbours
Lens(width, height) == {n \in {width * height - 1, width * height, width * height + 1} : n >= 0}

-----------------------------------------------------------------------------
(* Matrix::mul_mt: the pieces *)

\* "if thread_count > 12 { thread_count = 12 }"
MaxWorkers == 12

\* worker closure: "let i_start = th_index * th_cols"
IStart(t, cols) == t * cols

\* the worker's i_end without the remainder given to the last thread
IEndNoLeft(t, cols, left, count) == t * cols + cols

\* the worker's i_end with the remainder given to the first thread instead of the last
IEndLeftToFirst(t, cols, left, count) ==
    IF t = 0 THEN t * cols + cols + left ELSE t * cols + cols

\* worker closure: "let mut i_end = ...; if th_index == thread_count - 1 { i_end = ... }"
IEnd(t, cols, left, count) ==
    IF t = count - 1 THEN t * cols + cols + left ELSE t * cols + cols

\* worker closure: "let mut cell = 0; for k in 0..m1.width { ... }" for output cell (i, j)
WorkerCell(m1, m2, i, j, bld) == Accumulate(m1, m2, i, j, 0, 0, bld)

\* the worker w of index t still has an iteration (w.i, w.j) of its two loops to run
HasCell(w, t) ==
    /\ w.i < IEnd(t, th_cols, th_cols_left, thread_count)
    /\ w.j < m_height

\* the loop position after iteration (w.i, w.j)
Advance(w) ==
    IF w.j + 1 < m_height THEN [w EXCEPT !.j = w.j + 1]
    ELSE [w EXCEPT !.i = w.i + 1, !.j = 0]

\* the channel counted as disconnected as soon as the orchestrator's own Sender is gone
DisconnectedEarly(txv, ws) == ~txv

\* every Sender is dropped: the orchestrator's (drop(tx)) and each worker's
\* tx_clone, which lives as long as its thread runs
Disconnected(txv, ws) ==
    /\ ~txv
    /\ \A t \in DOMAIN ws : ws[t].state # "running"

NotCalled == [kind |-> "NotCalled"]

NoThreads == [t \in {} |-> 0]

\* no triple sent, no cell stored yet
NoCounts == [key \in {} |-> 0]

\* the counts f with one more occurrence of key
Tally(f, key) ==
    [k \in DOMAIN f \cup {key} |->
        IF k = key THEN (IF key \in DOMAIN f THEN f[key] + 1 ELSE 1) ELSE f[k]]

-----------------------------------------------------------------------------
(* Construction of the operands *)

Init ==
    /\ build \in {"debug", "release"}
    /\ pc = "new_a"
    /\ a = None
    /\ b = None
    /\ lastNew = None
    /\ result_1 = NotCalled
    /\ result_2 = NotCalled
    /\ m = None
    /\ thread_count = 0
    /\ th_cols = 0
    /\ th_cols_left = 0
    /\ m_height = 0
    /\ th_index = 0
    /\ tx = FALSE
    /\ workers = NoThreads
    /\ rx = NoThreads
    /\ sent = NoCounts
    /\ written = NoCounts
    /\ mat = None
    /\ hist = <<>>
    /\ acc = NotCalled
    /\ verify = NotCalled

\* the record kept of the call Matrix::new(width, height, cells) returning ret
NewCall(width, height, cells, ret) ==
    [kind |-> "Called", width |-> width, height |-> height, len |-> Len(cells),
     ret |-> ret.kind]

\* let a = Matrix::new(width, height, cells)
NewA(width, height, fill, len) ==
    /\ pc = "new_a"
    /\ LET ret == New(width, height, Fill(fill, len))
       IN  /\ a' = ret
           /\ lastNew' = NewCall(width, height, Fill(fill, len), ret)
           /\ pc' = IF ret.kind = "Some" THEN "new_b" ELSE "rejected"
    /\ UNCHANGED <<build, b, result_1, result_2, mtVars, mat, hist, acc, verify>>

\* let a = generate_matrix(width, height)
GenA(width, height, seed) ==
    /\ pc = "new_a"
    /\ a' = generate_matrix(width, height, seed)
    /\ pc' = IF a'.kind = "Some" THEN "new_b" ELSE "rejected"
    /\ UNCHANGED <<build, b, lastNew, result_1, result_2, mtVars, mat, hist, acc, verify>>

\* let b = Matrix::new(width, height, cells)
NewB(width, height, fill, len) ==
    /\ pc = "new_b"
    /\ LET ret == New(width, height, Fill(fill, len))
       IN  /\ b' = ret
           /\ lastNew' = NewCall(width, height, Fill(fill, len), ret)
           /\ pc' = IF ret.kind = "Some" THEN "ready" ELSE "rejected"
    /\ UNCHANGED <<build, a, result_1, result_2, mtVars, mat, hist, acc, verify>>

\* let b = generate_matrix(width, height)
GenB(width, height, seed) ==
    /\ pc = "new_b"
    /\ b' = generate_matrix(width, height, seed)
    /\ pc' = IF b'.kind = "Some" THEN "ready" ELSE "rejected"
    /\ UNCHANGED <<build, a, lastNew, result_1, result_2, mtVars, mat, hist, acc, verify>>

\* the operands whose product is one column wider than the worker cap:
\* a = Matrix::new(1, MaxWorkers + 1, [1, 2, ...]) and b = Matrix::new(1, 1, [1]).
\* No product of these elements overflows, so the two builds behave alike on
\* them and the pair is explored under one build.
NewTall ==
    /\ pc = "new_a"
    /\ build = "release"
    /\ LET reta == New(1, MaxWorkers + 1, Fill("ramp", MaxWorkers + 1))
           retb == New(1, 1, Fill("ramp", 1))
       IN  /\ a' = reta
           /\ b' = retb
           /\ lastNew' = NewCall(1, 1, Fill("ramp", 1), retb)
           /\ pc' = IF reta.kind = "Some" /\ retb.kind = "Some" THEN "ready" ELSE "rejected"
    /\ UNCHANGED <<build, result_1, result_2, mtVars, mat, hist, acc, verify>>

-----------------------------------------------------------------------------
(* The two multiplications of the operands *)

\* let result_1 = a.mul(b): the whole sequential call
CallMul ==
    /\ pc = "ready"
    /\ result_1' = Mul(a.m, b.m, build)
    /\ pc' = "mul_done"
    /\ UNCHANGED <<build, a, b, lastNew, result_2, mtVars, mat, hist, acc, verify>>

\* a.mul_mt(b) up to the spawn loop: the shape test, the output matrix, the
\* partition (thread_count, th_cols, th_cols_left; a zero thread_count is the
\* division panic of "m.width / thread_count") and the channel
CallMulMt ==
    /\ pc = "mul_done"
    /\ LET n == New(a.m.height, b.m.width, Zeros(a.m.height * b.m.width))
           tc == IF n.m.width > MaxWorkers THEN MaxWorkers ELSE n.m.width
       IN  IF ~Compatible(a.m, b.m) \/ n.kind # "Some"
           THEN /\ result_2' = None
                /\ pc' = "mt_done"
                /\ UNCHANGED mtVars
           ELSE IF tc = 0
           THEN /\ result_2' = Panic
                /\ pc' = "mt_done"
                /\ m' = n.m
                /\ UNCHANGED <<thread_count, th_cols, th_cols_left, m_height, th_index,
                               tx, workers, rx, sent, written>>
           ELSE /\ m' = n.m
                /\ thread_count' = tc
                /\ th_cols' = n.m.width \div tc
                /\ th_cols_left' = n.m.width % tc
                /\ m_height' = n.m.height
                /\ th_index' = 0
                /\ tx' = TRUE
                /\ workers' = NoThreads
                /\ rx' = NoThreads
                /\ sent' = NoCounts
                /\ written' = NoCounts
                /\ pc' = "spawn"
                /\ UNCHANGED result_2
    /\ UNCHANGED <<build, a, b, lastNew, result_1, mat, hist, acc, verify>>

\* one iteration of "for th_index in 0..thread_count": tx.clone(), the Arc
\* clones and thread::spawn; the new thread stands before its first iteration
Spawn ==
    /\ pc = "spawn"
    /\ th_index < thread_count
    /\ workers' = [t \in 0..th_index |->
                     IF t = th_index
                     THEN [state |-> "running", i |-> IStart(th_index, th_cols), j |-> 0]
                     ELSE workers[t]]
    /\ rx' = [t \in 0..th_index |-> IF t = th_index THEN <<>> ELSE rx[t]]
    /\ th_index' = th_index + 1
    /\ UNCHANGED <<build, pc, a, b, lastNew, result_1, result_2, m, thread_count,
                   th_cols, th_cols_left, m_height, tx, sent, written, mat, hist, acc,
                   verify>>

\* the spawn loop is over: drop(tx), and the orchestrator enters "for received in rx"
DropTx ==
    /\ pc = "spawn"
    /\ th_index = thread_count
    /\ tx' = FALSE
    /\ pc' = "drain"
    /\ UNCHANGED <<build, a, b, lastNew, result_1, result_2, m, thread_count, th_cols,
                   th_cols_left, m_height, th_index, workers, rx, sent, written, mat, hist,
                   acc, verify>>

\* worker t storing its cell into the output matrix itself instead of sending it
WorkerStoresCell(t) ==
    /\ t \in DOMAIN workers
    /\ workers[t].state = "running"
    /\ HasCell(workers[t], t)
    /\ LET w == workers[t]
           c == WorkerCell(a.m, b.m, w.i, w.j, build)
           nw == Advance(w)
       IN  IF c.kind # "Some" \/ pc = "mt_done"
           THEN /\ workers' = [workers EXCEPT ![t].state = "panicked"]
                /\ UNCHANGED m
           ELSE /\ m' = Set(m, w.i, w.j, c.v).m
                /\ workers' = [workers EXCEPT
                                 ![t] = IF HasCell(nw, t) THEN nw
                                        ELSE [nw EXCEPT !.state = "done"]]
    /\ UNCHANGED <<build, pc, a, b, lastNew, result_1, result_2, thread_count,
                   th_cols, th_cols_left, m_height, th_index, tx, rx, sent, written, mat,
                   hist, acc, verify>>

\* worker t runs one iteration (i, j): computes the cell and sends (i, j, cell).
\* A panic of the computation, or of send(..).unwrap() once the Receiver is
\* gone, unwinds the thread.  After its last iteration the closure returns,
\* which only drops the thread's own tx_clone and Arc clones: one step with
\* the last send.
WorkerIterate(t) ==
    /\ t \in DOMAIN workers
    /\ workers[t].state = "running"
    /\ HasCell(workers[t], t)
    /\ LET w == workers[t]
           c == WorkerCell(a.m, b.m, w.i, w.j, build)
           nw == Advance(w)
       IN  IF c.kind # "Some" \/ pc = "mt_done"
           THEN /\ workers' = [workers EXCEPT ![t].state = "panicked"]
                /\ UNCHANGED <<rx, sent>>
           ELSE /\ rx' = [rx EXCEPT ![t] = Append(@, <<w.i, w.j, c.v>>)]
                /\ sent' = Tally(sent, <<t, w.i, w.j, c.v>>)
                /\ workers' = [workers EXCEPT
                                 ![t] = IF HasCell(nw, t) THEN nw
                                        ELSE [nw EXCEPT !.state = "done"]]
    /\ UNCHANGED <<build, pc, a, b, lastNew, result_1, result_2, m, thread_count,
                   th_cols, th_cols_left, m_height, th_index, tx, written, mat, hist, acc,
                   verify>>

\* worker t has no iteration to run at all (an output of height 0): its closure returns
WorkerReturn(t) ==
    /\ t \in DOMAIN workers
    /\ workers[t].state = "running"
    /\ ~HasCell(workers[t], t)
    /\ workers' = [workers EXCEPT ![t].state = "done"]
    /\ UNCHANGED <<build, pc, a, b, lastNew, result_1, result_2, m, thread_count,
                   th_cols, th_cols_left, m_height, th_index, tx, rx, sent, written, mat,
                   hist, acc, verify>>

\* one iteration of "for received in rx": the orchestrator takes a triple and
\* calls m.set(i, j, cell), discarding the Option it returns.  The triples of
\* one sender arrive in the order sent; the order between senders is left open.
Recv(t) ==
    /\ pc = "drain"
    /\ t \in DOMAIN rx
    /\ rx[t] # <<>>
    /\ LET received == Head(rx[t])
           s == Set(m, received[1], received[2], received[3])
       IN  /\ rx' = [rx EXCEPT ![t] = Tail(@)]
           /\ IF s.kind = "Panic"
              THEN /\ result_2' = Panic
                   /\ pc' = "mt_done"
                   /\ UNCHANGED <<m, written>>
              ELSE /\ m' = s.m
                   /\ written' = IF s.kind = "Some"
                                 THEN Tally(written, received[2] * m.width + received[1])
                                 ELSE written
                   /\ UNCHANGED <<pc, result_2>>
    /\ UNCHANGED <<build, a, b, lastNew, result_1, thread_count, th_cols, th_cols_left,
                   m_height, th_index, tx, workers, sent, mat, hist, acc, verify>>

\* the channel is empty and disconnected: the drain loop ends and mul_mt
\* returns Some(m)
Return ==
    /\ pc = "drain"
    /\ \A t \in DOMAIN rx : rx[t] = <<>>
    /\ Disconnected(tx, workers)
    /\ result_2' = SomeMatrix(m)
    /\ pc' = "mt_done"
    /\ UNCHANGED <<build, a, b, lastNew, result_1, mtVars, mat, hist, acc, verify>>

Next ==
    \/ \E width \in Dims, height \in Dims, fill \in Fills :
         \E len \in Lens(width, height) : NewA(width, height, fill, len)
    \/ \E width \in Dims, height \in Dims, seed \in RngSeeds : GenA(width, height, seed)
    \/ \E width \in Dims, height \in Dims, fill \in Fills :
         \E len \in Lens(width, height) : NewB(width, height, fill, len)
    \/ \E width \in Dims, height \in Dims, seed \in RngSeeds : GenB(width, height, seed)
    \/ CallMul
    \/ CallMulMt
    \/ Spawn
    \/ DropTx
    \/ \E t \in 0..(MaxWorkers - 1) : WorkerIterate(t)
    \/ \E t \in 0..(MaxWorkers - 1) : WorkerReturn(t)
    \/ \E t \in 0..(MaxWorkers - 1) : Recv(t)
    \/ Return

\* operands of widths and heights up to MaxDim, both builds
Spec == Init /\ [][Next]_vars

\* worker t is a running thread with an iteration left: WorkerIterate(t) can happen
CanIterate(t) ==
    /\ t \in DOMAIN workers
    /\ workers[t].state = "running"
    /\ HasCell(workers[t], t)

\* the threads are scheduled fairly: the orchestrator takes its next step when
\* it has one, and so does every worker.  The last conjunct is the weak
\* fairness of WorkerIterate(t) with its enabling condition spelled out.
Fairness ==
    /\ WF_vars(CallMulMt)
    /\ WF_vars(Spawn)
    /\ WF_vars(DropTx)
    /\ WF_vars(\E t \in 0..(MaxWorkers - 1) : Recv(t))
    /\ WF_vars(Return)
    /\ \A t \in 0..(MaxWorkers - 1) : WF_vars(WorkerReturn(t))
    /\ \A t \in 0..(MaxWorkers - 1) :
         []<>(~CanIterate(t)) \/ []<><<WorkerIterate(t)>>_vars

\* Spec under fair scheduling
SpecFair == Init /\ [][Next]_vars /\ Fairness

NextTall ==
    \/ Next
    \/ NewTall

\* the same, and the tall pair of operands
SpecTall == Init /\ [][NextTall]_vars

-----------------------------------------------------------------------------
(* The Matrix API exercised on its own: get and set at arbitrary coordinates *)

\* the matrices the exercise starts from
ApiMatrices == {New(width, height, Fill("ramp", width * height)).m : width \in Dims, height \in Dims}

\* the value the exercise stores
SetValues == {-7}

InitApi ==
    /\ build = "release"
    /\ pc = "api"
    /\ a = None
    /\ b = None
    /\ lastNew = None
    /\ result_1 = NotCalled
    /\ result_2 = NotCalled
    /\ m = None
    /\ thread_count = 0
    /\ th_cols = 0
    /\ th_cols_left = 0
    /\ m_height = 0
    /\ th_index = 0
    /\ tx = FALSE
    /\ workers = NoThreads
    /\ rx = NoThreads
    /\ sent = NoCounts
    /\ written = NoCounts
    /\ mat \in ApiMatrices
    /\ hist = <<>>
    /\ acc = NotCalled
    /\ verify = NotCalled

\* mat.get(x, y)
DoGet(x, y) ==
    /\ pc = "api"
    /\ Len(hist) < MaxOps
    /\ hist' = Append(hist, [op |-> "get", x |-> x, y |-> y, value |-> 0,
                             before |-> mat, ret |-> Get(mat, x, y), after |-> mat])
    /\ UNCHANGED <<build, pc, a, b, lastNew, result_1, result_2, mtVars, mat, acc, verify>>

\* mat.set(x, y, value); a panicking call leaves the matrix as it was
DoSet(x, y, value) ==
    /\ pc = "api"
    /\ Len(hist) < MaxOps
    /\ LET s == Set(mat, x, y, value)
       IN  /\ mat' = s.m
           /\ hist' = Append(hist, [op |-> "set", x |-> x, y |-> y, value |-> value,
                                    before |-> mat,
                                    ret |-> IF s.kind = "Some" THEN SomeValue(s.v)
                                            ELSE [kind |-> s.kind],
                                    after |-> s.m])
    /\ UNCHANGED <<build, pc, a, b, lastNew, result_1, result_2, mtVars, acc, verify>>

NextApi ==
    \/ \E x \in Dims, y \in Dims : DoGet(x, y)
    \/ \E x \in Dims, y \in Dims, value \in SetValues : DoSet(x, y, value)

SpecApi == InitApi /\ [][NextApi]_vars

-----------------------------------------------------------------------------
(* mul_mt over a range of output widths: the left operand is width columns   *)
(* high and 0 wide, the right one 0 high and 0 wide, so the output has width *)
(* columns of height 0 and the workers have their ranges but no cell to      *)
(* compute.  The exercise starts where a.mul(b) has returned.                *)

Widths == 0..MaxWidth

InitWidths ==
    /\ build = "release"
    /\ pc = "mul_done"
    /\ \E width \in Widths : a = New(0, width, <<>>)
    /\ b = New(0, 0, <<>>)
    /\ lastNew = NewCall(0, 0, <<>>, b)
    /\ result_1 = Mul(a.m, b.m, build)
    /\ result_2 = NotCalled
    /\ m = None
    /\ thread_count = 0
    /\ th_cols = 0
    /\ th_cols_left = 0
    /\ m_height = 0
    /\ th_index = 0
    /\ tx = FALSE
    /\ workers = NoThreads
    /\ rx = NoThreads
    /\ sent = NoCounts
    /\ written = NoCounts
    /\ mat = None
    /\ hist = <<>>
    /\ acc = NotCalled
    /\ verify = NotCalled

NextWidths ==
    \/ CallMulMt
    \/ Spawn
    \/ DropTx
    \/ \E t \in 0..(MaxWorkers - 1) : WorkerReturn(t)
    \/ Return

SpecWidths == InitWidths /\ [][NextWidths]_vars


-----------------------------------------------------------------------------
(* One output cell of the driver's product, accumulated term by term.  The   *)
(* operands come from generate_matrix, so their elements lie in              *)
(* RngLow..RngHigh-1, and the inner dimension is the driver's.  The terms    *)
(* are drawn from the two pairs of elements with the largest and the least   *)
(* product; every other pair's product lies between them, and so does every  *)
(* partial sum of other operands between the partial sums reached here.      *)

\* main: "let width_m1_height_m2 = 1000", the inner dimension of the product
width_m1_height_m2 == 1000

\* the pairs (element of m1, element of m2) with the largest and the least product
AccPairs == {<<RngLow, RngLow>>, <<RngLow, RngHigh - 1>>}

\* a 1 wide, 1 high matrix holding x
OneCell(x) == [width |-> 1, height |-> 1, cells |-> <<x>>]

InitAcc ==
    /\ build \in {"debug", "release"}
    /\ pc = "acc"
    /\ a = None
    /\ b = None
    /\ lastNew = None
    /\ result_1 = NotCalled
    /\ result_2 = NotCalled
    /\ m = None
    /\ thread_count = 0
    /\ th_cols = 0
    /\ th_cols_left = 0
    /\ m_height = 0
    /\ th_index = 0
    /\ tx = FALSE
    /\ workers = NoThreads
    /\ rx = NoThreads
    /\ sent = NoCounts
    /\ written = NoCounts
    /\ mat = None
    /\ hist = <<>>
    /\ acc = [k |-> 0, ret |-> SomeValue(0), exact |-> 0]
    /\ verify = NotCalled

\* iteration acc.k of "for k in 0..m1.width { cell += m1.get(k, i).unwrap() *
\* m2.get(j, k).unwrap() }" where the two elements read are x and y; exact is
\* the sum of the products as integers
AccIterate(x, y) ==
    /\ pc = "acc"
    /\ acc.ret.kind = "Some"
    /\ acc.k < width_m1_height_m2
    /\ acc' = [k |-> acc.k + 1,
               ret |-> Accumulate(OneCell(x), OneCell(y), 0, 0, 0, acc.ret.v, build),
               exact |-> acc.exact + x * y]
    /\ UNCHANGED <<build, pc, a, b, lastNew, result_1, result_2, mtVars, mat, hist, verify>>

NextAcc == \E p \in AccPairs : AccIterate(p[1], p[2])

SpecAcc == InitAcc /\ [][NextAcc]_vars

-----------------------------------------------------------------------------
(* The comparison loop that ends main, taken as a function of the two        *)
(* results it compares: result_1 is a matrix of the literal buffers, and     *)
(* result_2 is the same matrix with any set of its cells left at 0.          *)

\* mx with the cells at the flat indices (from 1) in zeroed set to 0
WithZeros(mx, zeroed) ==
    [mx EXCEPT !.cells = [idx \in 1..Len(mx.cells) |->
                            IF idx \in zeroed THEN 0 ELSE mx.cells[idx]]]

InitVerify ==
    /\ build = "release"
    /\ pc = "verify"
    /\ a = None
    /\ b = None
    /\ lastNew = None
    /\ \E width \in 1..MaxDim, height \in 1..MaxDim, fill \in Fills :
         \E zeroed \in SUBSET (1..(width * height)) :
            /\ result_1 = New(width, height, Fill(fill, width * height))
            /\ result_2 = SomeMatrix(WithZeros(result_1.m, zeroed))
    /\ m = None
    /\ thread_count = 0
    /\ th_cols = 0
    /\ th_cols_left = 0
    /\ m_height = 0
    /\ th_index = 0
    /\ tx = FALSE
    /\ workers = NoThreads
    /\ rx = NoThreads
    /\ sent = NoCounts
    /\ written = NoCounts
    /\ mat = None
    /\ hist = <<>>
    /\ acc = NotCalled
    /\ verify = [state |-> "running", i |-> 0, j |-> 0]

\* one iteration of "for i in 0..height_m1 { for j in 0..width_m2 { if
\* result_1.get(i, j) != result_2.get(i, j) { panic!(..) } } }".  The report
\* holds the four arguments of the panic message in their order; the first
\* two are both result_1.get(i, j).unwrap().
VerifyIterate ==
    /\ pc = "verify"
    /\ verify.state = "running"
    /\ verify.i < result_1.m.width
    /\ LET i == verify.i
           j == verify.j
           g1 == Get(result_1.m, i, j)
           g2 == Get(result_2.m, i, j)
       IN  verify' =
             IF g1.kind = "Panic" \/ g2.kind = "Panic"
             THEN [state |-> "panicked", i |-> i, j |-> j]
             ELSE IF g1 # g2
             THEN IF g1.kind # "Some"
                  THEN [state |-> "panicked", i |-> i, j |-> j]
                  ELSE [state |-> "panicked", i |-> i, j |-> j,
                        report |-> <<g1.v, g1.v, i, j>>]
             ELSE IF j + 1 < result_1.m.height
             THEN [state |-> "running", i |-> i, j |-> j + 1]
             ELSE [state |-> "running", i |-> i + 1, j |-> 0]
    /\ UNCHANGED <<build, pc, a, b, lastNew, result_1, result_2, mtVars, mat, hist, acc>>

\* the loops are over: main returns
VerifyEnd ==
    /\ pc = "verify"
    /\ verify.state = "running"
    /\ verify.i >= result_1.m.width
    /\ verify' = [verify EXCEPT !.state = "done"]
    /\ UNCHANGED <<build, pc, a, b, lastNew, result_1, result_2, mtVars, mat, hist, acc>>

NextVerify ==
    \/ VerifyIterate
    \/ VerifyEnd

SpecVerify == InitVerify /\ [][NextVerify]_vars

-----------------------------------------------------------------------------
(* Properties: mul against mul_mt *)

\* both operands are built and the left one's width is the right one's height
Multipliable == a.kind = "Some" /\ b.kind = "Some" /\ a.m.width = b.m.height

-----------------------------------------------------------------------------
(* Properties: mul *)

RECURSIVE ExpectedSum(_, _, _, _, _)
\* the sum over the first k values of the inner index of
\* m1[flat i*width + k] * m2[flat k*width + j], in i32 arithmetic
ExpectedSum(m1, m2, i, j, k) ==
    IF k = 0 THEN 0
    ELSE AddWrap(MulWrap(m1.cells[i * m1.width + (k - 1) + 1],
                         m2.cells[(k - 1) * m2.width + j + 1]),
                 ExpectedSum(m1, m2, i, j, k - 1))

\* some element of mx is at least Big in magnitude
HasBig(mx) == \E idx \in 1..Len(mx.cells) : Abs(mx.cells[idx]) >= Big

-----------------------------------------------------------------------------
(* Properties: incompatible operands *)

\* C3: when a.width # b.height, mul and mul_mt both return None and no
\* matrix; in mul_mt no worker is spawned, no triple is sent and no output
\* matrix is allocated or written.
C3_Incompatible ==
    (a.kind = "Some" /\ b.kind = "Some" /\ a.m.width # b.m.height)
        => /\ result_1 \in {NotCalled, None}
           /\ result_2 \in {NotCalled, None}
           /\ pc \in {"mul_done", "mt_done"} => result_1 = None
           /\ pc = "mt_done" => result_2 = None
           /\ pc \notin {"spawn", "drain"}
           /\ workers = NoThreads
           /\ rx = NoThreads
           /\ th_index = 0
           /\ m = None

\* C3 witness: both calls have returned on operands with a.width # b.height
\* whose other two sides agree
C3_Witness ==
    /\ pc = "mt_done"
    /\ a.m.width # b.m.height
    /\ a.m.height = b.m.width
    /\ a.m.height >= 1
    /\ result_1 = None
    /\ result_2 = None

-----------------------------------------------------------------------------
(* Properties: a worker that panics *)

\* C4: if a worker of mul_mt terminates abnormally before delivering all the
\* cells of its chunk, mul_mt does not return a matrix (it reports the
\* failure): no returned matrix has undelivered cells left at 0.
C4_WorkerFailureSurfaced ==
    (pc = "mt_done" /\ \E t \in DOMAIN workers : workers[t].state = "panicked")
        => result_2.kind # "Some"

-----------------------------------------------------------------------------
(* Properties: get and set *)

\* the call recorded in h addresses a cell of the matrix it was made on
InRange(h) == h.x < h.before.width /\ h.y < h.before.height

\* the flat index, counted from 1, of the cell the call recorded in h addresses
FlatIndex(h) == h.y * h.before.width + h.x + 1

\* C5: for every matrix and every coordinate with x >= width or y >= height,
\* get(x, y) and set(x, y, v) return None (the bounds error): they neither
\* return nor overwrite another cell, nor fault on the index, and set leaves
\* the matrix unchanged; coordinates with one component 0 included.
C5_OutOfRangeRejected ==
    \A n \in 1..Len(hist) :
        ~InRange(hist[n]) => (hist[n].ret = None /\ hist[n].after = hist[n].before)

\* C8: for every matrix, valid coordinate (x < width and y < height) and
\* value v, set(x, y, v) succeeds and a get(x, y) that follows it returns v.
C8_SetThenGet ==
    \A n \in 1..Len(hist) :
        (hist[n].op = "set" /\ InRange(hist[n]))
            => /\ hist[n].ret.kind = "Some"
               /\ (/\ n < Len(hist)
                   /\ hist[n + 1].op = "get"
                   /\ hist[n + 1].x = hist[n].x
                   /\ hist[n + 1].y = hist[n].y)
                      => hist[n + 1].ret = SomeValue(hist[n].value)

\* C8 witness: on a 2 wide, 2 high matrix, set(1, 0, v) with v not yet in the
\* cell, then get(1, 0) returning a value
C8_Witness ==
    /\ Len(hist) >= 2
    /\ hist[1].op = "set"
    /\ hist[1].before.width = 2
    /\ hist[1].before.height = 2
    /\ hist[1].x = 1
    /\ hist[1].y = 0
    /\ hist[1].before.cells[2] # hist[1].value
    /\ hist[2].op = "get"
    /\ hist[2].x = 1
    /\ hist[2].y = 0
    /\ hist[2].ret.kind = "Some"

\* C10: at a valid coordinate, set(x, y, v) returns the value the cell held
\* just before the call, stores v at flat index y*width + x and leaves
\* width, height and every other cell as they were.
C10_SetFrame ==
    \A n \in 1..Len(hist) :
        (hist[n].op = "set" /\ InRange(hist[n]))
            => /\ hist[n].ret = SomeValue(hist[n].before.cells[FlatIndex(hist[n])])
               /\ hist[n].after.width = hist[n].before.width
               /\ hist[n].after.height = hist[n].before.height
               /\ Len(hist[n].after.cells) = Len(hist[n].before.cells)
               /\ hist[n].after.cells[FlatIndex(hist[n])] = hist[n].value
               /\ \A idx \in 1..Len(hist[n].before.cells) :
                    idx # FlatIndex(hist[n])
                        => hist[n].after.cells[idx] = hist[n].before.cells[idx]
               /\ n = Len(hist) => mat = hist[n].after

\* C10 witness: set(0, 1, v) has returned on a 2 wide, 2 high matrix whose
\* cells all differ from v
C10_Witness ==
    /\ Len(hist) >= 1
    /\ hist[1].op = "set"
    /\ hist[1].before.width = 2
    /\ hist[1].before.height = 2
    /\ hist[1].x = 0
    /\ hist[1].y = 1
    /\ \A idx \in 1..4 : hist[1].before.cells[idx] # hist[1].value
    /\ hist[1].ret.kind = "Some"

-----------------------------------------------------------------------------
(* Properties: the result of mul_mt does not depend on the schedule *)

RECURSIVE OneByOne(_, _, _, _, _, _, _, _, _, _)
\* the output matrix left by the schedule in which the workers run one after
\* the other, each to its end or to its panic, every triple being received
\* as soon as it is sent: from worker t at iteration (i, j) on
OneByOne(m1, m2, mx, t, i, j, count, cols, left, bld) ==
    IF t >= count THEN mx
    ELSE IF i >= IEnd(t, cols, left, count)
    THEN OneByOne(m1, m2, mx, t + 1, IStart(t + 1, cols), 0, count, cols, left, bld)
    ELSE IF j >= mx.height
    THEN OneByOne(m1, m2, mx, t, i + 1, 0, count, cols, left, bld)
    ELSE LET c == WorkerCell(m1, m2, i, j, bld)
         IN  IF c.kind # "Some"
             THEN OneByOne(m1, m2, mx, t + 1, IStart(t + 1, cols), 0, count, cols, left, bld)
             ELSE OneByOne(m1, m2, Set(mx, i, j, c.v).m, t, i, j + 1, count, cols, left, bld)

\* C6: for the same operands (and build) mul_mt returns the same matrix
\* under every interleaving of the workers' sends and every order of the
\* receives: the one the one-by-one schedule leaves.
C6_ScheduleFree ==
    (pc = "mt_done" /\ Multipliable /\ a.m.height >= 1)
        => result_2 = SomeMatrix(OneByOne(a.m, b.m,
                                          [width |-> a.m.height, height |-> b.m.width,
                                           cells |-> Zeros(a.m.height * b.m.width)],
                                          0, 0, 0, thread_count, th_cols, th_cols_left,
                                          build))

\* C6 witness: mul_mt has returned a matrix that two workers filled with two
\* cells each
C6_Witness ==
    /\ pc = "mt_done"
    /\ result_2.kind = "Some"
    /\ thread_count = 2
    /\ m_height = 2
    /\ \A t \in DOMAIN workers : workers[t].state = "done"

-----------------------------------------------------------------------------
(* Properties: construction and shape *)

\* an Option<Matrix> that holds a matrix holds one with width*height cells
WellFormed(o) == o.kind = "Some" => Len(o.m.cells) = o.m.width * o.m.height

\* C7: Matrix::new(width, height, cells) returns a matrix exactly when
\* cells.len() = width*height and None otherwise; and every matrix reached
\* through new, set, generate_matrix, mul and mul_mt has width*height cells.
C7_NewChecksLength ==
    /\ lastNew.kind = "Called"
          => (lastNew.ret = "Some" <=> lastNew.len = lastNew.width * lastNew.height)
    /\ lastNew.kind = "Called" => lastNew.ret \in {"Some", "None"}
    /\ WellFormed(a)
    /\ WellFormed(b)
    /\ WellFormed(result_1)
    /\ WellFormed(result_2)
    /\ m # None => Len(m.cells) = m.width * m.height

\* C7 witness: Matrix::new has refused a buffer one element too long, after
\* having accepted one of the right length
C7_Witness ==
    /\ pc = "rejected"
    /\ a.kind = "Some"
    /\ Len(a.m.cells) >= 2
    /\ lastNew.kind = "Called"
    /\ lastNew.len = lastNew.width * lastNew.height + 1
    /\ lastNew.ret = "None"
    /\ b = None

\* C9: for compatible operands the product returned by mul and by mul_mt has
\* the left operand's height and the right operand's width:
\* result.height = a.height and result.width = b.width.
C9_ProductShape ==
    /\ (Multipliable /\ result_1.kind = "Some")
          => (result_1.m.height = a.m.height /\ result_1.m.width = b.m.width)
    /\ (Multipliable /\ result_2.kind = "Some")
          => (result_2.m.height = a.m.height /\ result_2.m.width = b.m.width)

-----------------------------------------------------------------------------
(* Properties: the partition of the output columns among the workers *)

\* the range of worker t holds the index x
InRangeOf(t, x) ==
    IStart(t, th_cols) <= x /\ x < IEnd(t, th_cols, th_cols_left, thread_count)

\* C11: for every output width W >= 1, mul_mt spawns exactly n = min(W, 12)
\* workers whose ranges [i_start, i_end) are contiguous, pairwise disjoint
\* and cover exactly 0..W: the first n-1 workers get W / n indices each, the
\* last W / n + W % n, and no range is empty.
C11_Partition ==
    (pc \in {"spawn", "drain", "mt_done"} /\ m # None /\ m.width >= 1)
        => LET W == m.width
               n == IF W < MaxWorkers THEN W ELSE MaxWorkers
           IN  /\ thread_count = n
               /\ DOMAIN workers = 0..(th_index - 1)
               /\ th_index <= n
               /\ pc # "spawn" => th_index = n
               /\ \A t \in DOMAIN workers :
                    /\ InRangeOf(t, IStart(t, th_cols))
                    /\ workers[t].i >= IStart(t, th_cols)
                    /\ workers[t].i <= IEnd(t, th_cols, th_cols_left, thread_count)
               /\ IStart(0, th_cols) = 0
               /\ IEnd(n - 1, th_cols, th_cols_left, thread_count) = W
               /\ \A t \in 0..(n - 1) :
                    LET len == IEnd(t, th_cols, th_cols_left, thread_count)
                                   - IStart(t, th_cols)
                    IN  /\ len >= 1
                        /\ t < n - 1 => len = W \div n
                        /\ t = n - 1 => len = (W \div n) + (W % n)
                        /\ t < n - 1 => IEnd(t, th_cols, th_cols_left, thread_count)
                                            = IStart(t + 1, th_cols)
               /\ \A x \in 0..(W - 1) :
                    Cardinality({t \in 0..(n - 1) : InRangeOf(t, x)}) = 1
               /\ \A t \in 0..(n - 1) :
                    /\ IStart(t, th_cols) >= 0
                    /\ IEnd(t, th_cols, th_cols_left, thread_count) <= W

\* C11 witness: all the workers are spawned for an output wider than twice
\* the worker cap and not a multiple of it: 12 workers, 2 columns each and a
\* remainder for the last
C11_Witness ==
    /\ pc = "drain"
    /\ m.width > 2 * MaxWorkers
    /\ thread_count = MaxWorkers
    /\ th_cols = 2
    /\ th_cols_left >= 1
    /\ DOMAIN workers = 0..(MaxWorkers - 1)

-----------------------------------------------------------------------------
(* Properties: the triples sent and the cells written *)

\* the triples of sent that target the output coordinate (i, j)
SentFor(i, j) == {key \in DOMAIN sent : key[2] = i /\ key[3] = j}

\* C12: in every execution of mul_mt, for each output coordinate (i, j) with
\* i < output.width and j < output.height exactly one triple (i, j, value) is
\* sent, by exactly one worker, and the orchestrator writes each output cell
\* exactly once; no triple targets a coordinate outside the output, and
\* output.width * output.height triples are sent in all.  At no moment is a
\* coordinate sent or a cell written twice; when mul_mt returns its matrix
\* all of them have been sent and written once.
C12_OneTriplePerCell ==
    (pc \in {"spawn", "drain", "mt_done"} /\ m # None)
        => /\ \A key \in DOMAIN sent :
                /\ sent[key] = 1
                /\ key[2] < m.width
                /\ key[3] < m.height
                /\ Cardinality(SentFor(key[2], key[3])) = 1
           /\ \A n \in DOMAIN written :
                /\ written[n] = 1
                /\ n < m.width * m.height
           /\ (pc = "mt_done" /\ result_2.kind = "Some")
                => /\ \A i \in 0..(m.width - 1), j \in 0..(m.height - 1) :
                        /\ Cardinality(SentFor(i, j)) = 1
                        /\ j * m.width + i \in DOMAIN written
                   /\ Cardinality(DOMAIN sent) = m.width * m.height

\* C13: mul_mt returns its matrix only after every worker has finished its
\* chunk and released its sender and every triple that was sent has been
\* received and written into the output: at the moment of return the channel
\* holds no undelivered triple and no computed cell has been lost.
C13_ReturnAfterDrain ==
    (pc = "mt_done" /\ result_2.kind = "Some")
        => /\ ~tx
           /\ DOMAIN workers = 0..(thread_count - 1)
           /\ \A t \in DOMAIN workers :
                /\ workers[t].state = "done"
                /\ ~HasCell(workers[t], t)
           /\ \A t \in DOMAIN rx : rx[t] = <<>>
           /\ \A key \in DOMAIN sent :
                /\ key[3] * m.width + key[2] \in DOMAIN written
                /\ result_2.m.cells[key[3] * m.width + key[2] + 1] = key[4]

-----------------------------------------------------------------------------
(* Properties: termination of mul_mt *)

\* no worker thread is running
NoneRunning == \A t \in DOMAIN workers : workers[t].state # "running"

\* C14: under fair scheduling every call of mul_mt on compatible operands
\* eventually returns.  The orchestrator's own sender is dropped before the
\* drain starts, the orchestrator never waits on a channel that has a live
\* sender and no running worker, and the call that was started ends by
\* returning its matrix.
C14_MulMtReturns ==
    /\ [](pc = "drain" => ~tx)
    /\ []((pc = "drain" /\ NoneRunning /\ \A t \in DOMAIN rx : rx[t] = <<>>)
            => ENABLED Return)
    /\ (pc = "mul_done" /\ Multipliable)
          ~> (pc = "mt_done" /\ result_2.kind = "Some")

-----------------------------------------------------------------------------
(* Properties: who writes what during mul_mt *)

\* the step is one of a worker thread: a spawned worker moves on or ends
WorkerStep == DOMAIN workers' = DOMAIN workers /\ workers' # workers

\* C15: throughout a call of mul_mt the two input matrices are never
\* modified; a worker's step changes nothing but its own position and the
\* channel, to which it only appends a triple, and never an output cell;
\* the output matrix is allocated and written by the orchestrator alone, one
\* received triple at a time.
C15_InputsAndOutputFrame ==
    [][/\ pc \in {"mul_done", "spawn", "drain"} => (a' = a /\ b' = b)
       /\ WorkerStep
            => /\ m' = m
               /\ written' = written
               /\ a' = a
               /\ b' = b
               /\ pc' = pc
               /\ result_2' = result_2
               /\ \A t \in DOMAIN rx :
                    \/ rx'[t] = rx[t]
                    \/ Len(rx'[t]) = Len(rx[t]) + 1 /\ SubSeq(rx'[t], 1, Len(rx[t])) = rx[t]
       /\ m' # m
            => \/ pc = "mul_done"
               \/ /\ pc = "drain"
                  /\ workers' = workers
                  /\ \E t \in DOMAIN rx : rx[t] # <<>> /\ rx'[t] = Tail(rx[t])
      ]_vars

\* C15 witness: in the drain loop, with an output cell already written, a
\* worker still running has a triple in the channel
C15_Witness ==
    /\ pc = "drain"
    /\ written # NoCounts
    /\ \E idx \in 1..Len(m.cells) : m.cells[idx] # 0
    /\ \E t \in DOMAIN workers : workers[t].state = "running" /\ rx[t] # <<>>

-----------------------------------------------------------------------------
(* Properties: the width of the accumulator *)

\* C16: for operands whose elements lie in the generator's range (-99 to 98)
\* and whose inner dimension is at most the driver's 1000, every partial sum
\* of every cell stays within the signed 32-bit range: the accumulation
\* neither panics on overflow (debug build) nor wraps (release build), so
\* the accumulator holds the exact sum after every term.
C16_AccumulatorFits ==
    pc = "acc"
        => /\ acc.ret.kind = "Some"
           /\ acc.ret.v = acc.exact
           /\ acc.exact <= MaxI32
           /\ acc.exact >= MinI32
           /\ acc.exact <= acc.k * (RngLow * RngLow)
           /\ acc.exact >= acc.k * (RngLow * (RngHigh - 1))

\* C16 witness: all the terms of the driver's inner dimension are added and
\* each was the largest product
C16_Witness ==
    /\ pc = "acc"
    /\ acc.k = width_m1_height_m2
    /\ acc.ret.kind = "Some"
    /\ acc.ret.v = width_m1_height_m2 * RngLow * RngLow

-----------------------------------------------------------------------------
(* Properties: the driver's comparison of the two results *)

\* the two results differ at coordinate (i, j)
Differ(i, j) ==
    result_1.m.cells[j * result_1.m.width + i + 1]
        # result_2.m.cells[j * result_2.m.width + i + 1]

\* the place of coordinate (i, j) in the order of the comparison loop
Rank(i, j) == i * result_1.m.height + j

\* C17: the driver compares the two results at every output coordinate; at
\* the first coordinate, in its iteration order, where they differ it
\* terminates abnormally with a report that holds that coordinate and both
\* conflicting values, the sequential result's and the parallel result's;
\* if no cell differs it terminates normally.
C17_MismatchReported ==
    pc = "verify"
        => LET W == result_1.m.width
               H == result_1.m.height
           IN  /\ \A i \in 0..(W - 1), j \in 0..(H - 1) :
                    (Differ(i, j) /\ Rank(i, j) < Rank(verify.i, verify.j))
                        => verify.state = "panicked"
               /\ verify.state = "done"
                    => \A i \in 0..(W - 1), j \in 0..(H - 1) : ~Differ(i, j)
               /\ verify.state = "panicked"
                    => /\ Differ(verify.i, verify.j)
                       /\ \A i \in 0..(W - 1), j \in 0..(H - 1) :
                            Rank(i, j) < Rank(verify.i, verify.j) => ~Differ(i, j)
                       /\ "report" \in DOMAIN verify
                       /\ verify.report[3] = verify.i
                       /\ verify.report[4] = verify.j
                       /\ verify.report[1] = Get(result_1.m, verify.i, verify.j).v
                       /\ verify.report[2] = Get(result_2.m, verify.i, verify.j).v

-----------------------------------------------------------------------------
(* Properties: zero columns *)

\* C18: for compatible operands whose output has zero columns (a.height = 0)
\* mul_mt returns the same empty matrix as mul does, without faulting while
\* it chooses the worker count and the chunk size.
C18_ZeroColumns ==
    (pc = "mt_done" /\ Multipliable /\ a.m.height = 0)
        => /\ result_1.kind = "Some"
           /\ result_2.kind = "Some"
           /\ result_2 = result_1
           /\ result_2.m.cells = <<>>

-----------------------------------------------------------------------------
(* Properties: the coordinates of the get and set calls of mul and mul_mt *)

\* get(x, y) on mx is made inside mx, reads inside the buffer and returns a value
GetOk(mx, x, y) ==
    /\ x < mx.width
    /\ y < mx.height
    /\ y * mx.width + x < Len(mx.cells)
    /\ Get(mx, x, y).kind = "Some"

\* set(x, y, _) on mx is made inside mx, writes inside the buffer and returns a value
SetOk(mx, x, y) ==
    /\ x < mx.width
    /\ y < mx.height
    /\ y * mx.width + x < Len(mx.cells)
    /\ Set(mx, x, y, 0).kind = "Some"

\* C19: in every execution of mul and mul_mt on compatible operands every
\* get and set call is made at a coordinate inside the matrix it addresses
\* and returns a value there, so no unwrap of a get result fails and no flat
\* index reaches the buffer length.  For mul: every call of its three loops.
\* For mul_mt: the gets of every iteration a worker stands before, the set
\* of every triple in the channel, and every triple ever sent.  A call
\* fails to return only by the overflow panic of a debug build or by the
\* division of the zero-column case, never by a get or a set.
C19_CallsInRange ==
    /\ (Multipliable /\ result_1 # NotCalled)
          => LET out == [width |-> a.m.height, height |-> b.m.width,
                         cells |-> Zeros(a.m.height * b.m.width)]
             IN  /\ \A i \in 0..(out.width - 1), j \in 0..(out.height - 1) :
                      /\ SetOk(out, i, j)
                      /\ \A k \in 0..(a.m.width - 1) :
                           GetOk(a.m, k, i) /\ GetOk(b.m, j, k)
                 /\ result_1.kind = "Panic"
                      => (build = "debug" /\ HasBig(a.m) /\ HasBig(b.m))
    /\ (Multipliable /\ pc \in {"spawn", "drain", "mt_done"})
          => /\ \A t \in DOMAIN workers :
                  /\ CanIterate(t)
                       => \A k \in 0..(a.m.width - 1) :
                            /\ GetOk(a.m, k, workers[t].i)
                            /\ GetOk(b.m, workers[t].j, k)
                  /\ \A n \in 1..Len(rx[t]) : SetOk(m, rx[t][n][1], rx[t][n][2])
                  /\ workers[t].state = "panicked"
                       => (build = "debug" /\ HasBig(a.m) /\ HasBig(b.m))
             /\ \A key \in DOMAIN sent : SetOk(m, key[2], key[3])
             /\ result_2.kind = "Panic" => a.m.height = 0

\* C19 witness: in the drain loop a worker of a two-column product stands
\* before the last iteration of its column, its first triple in the channel
C19_Witness ==
    /\ pc = "drain"
    /\ a.m.width = 2
    /\ thread_count = 2
    /\ \E t \in DOMAIN workers :
         /\ CanIterate(t)
         /\ workers[t].i = 1
         /\ workers[t].j = 1
         /\ Len(rx[t]) = 1

=============================================================================
